---- MODULE Spec2Model ----
(***************************************************************************)
(* The run-structure tracker (RunStructure) and the filesystem event       *)
(* orchestrator (FOV_EventHandler) of toffy/fov_watcher.py.                *)
(*                                                                         *)
(* A FOV identifier "fov-<runOrder>-scan-<s>" is the pair <<runOrder, s>>.  *)
(* A value handed to the per-FOV callback (and to processed()) is a record *)
(* [form, ord, scan]: form "id" is the string "fov-<ord>-scan-<scan>",     *)
(* form "dash_path" is the Path <dir>/fov-<ord>-scan-1.bin and form        *)
(* "underscore_path" is the Path <dir>/fov-<ord>_scan_1.bin.  Values of    *)
(* different forms are different Python objects and never compare equal.   *)
(* The stem of the manifest file <run_name>.json is written <<0, 0>>: it is *)
(* the name of no FOV.                                                     *)
(***************************************************************************)
EXTENDS Integers, Sequences, FiniteSets, TLC

\* ------------------------------------------------------------------ bounds
\* events handled by one handler (initial walk included)
MaxEvents == 5
\* events handled when the manifest has more than four FOVs
MaxEventsLong == 3
\* no further event is delivered once the callback trace is longer than this
MaxCalls == 9
\* events whose file stays empty for the whole wait
MaxEmpty == 1

\* ---------------------------------------------------------------- manifests
MolyTarget == "Molybdenum Foil"

Entry(run_order, scan_count, target) ==
    [runOrder |-> run_order, scanCount |-> scan_count, standardTarget |-> target]

\* the manifest of fov_watcher_test.py: two single-scan FOVs
Manifest2 == << Entry(1, 1, ""), Entry(2, 1, "") >>

\* four single-scan FOVs
Manifest4 == << Entry(1, 1, ""), Entry(2, 1, ""), Entry(3, 1, ""), Entry(4, 1, "") >>

\* five single-scan FOVs
Manifest5 == << Entry(1, 1, ""), Entry(2, 1, ""), Entry(3, 1, ""), Entry(4, 1, ""), Entry(5, 1, "") >>

\* a moly point between two tissue FOVs
ManifestMoly == << Entry(1, 1, ""), Entry(2, 1, MolyTarget), Entry(3, 1, "") >>

\* a FOV with two scans
ManifestScans == << Entry(1, 2, ""), Entry(2, 1, "") >>

Manifests == { Manifest2, Manifest4, Manifest5, ManifestMoly, ManifestScans }

\* ------------------------------------------------------------ RunStructure
FileKinds == { "json", "bin" }

\* fov_names numbered as range(scan) numbers them, from 0
FovNames_from_zero(fov) == { << fov.runOrder, s >> : s \in 0 .. fov.scanCount - 1 }

\* fov_names of one manifest entry
FovNames(fov) == { << fov.runOrder, s >> : s \in 1 .. fov.scanCount }

AllFovNames(m) == UNION { FovNames(m[k]) : k \in 1 .. Len(m) }

\* no FOV taken for a moly point
MolyPoints_none(m) == { }

\* moly_points after construction
MolyPoints(m) ==
    UNION { FovNames(m[k]) : k \in { j \in 1 .. Len(m) : m[j].standardTarget = MolyTarget } }

\* fov_progress after construction
InitialProgress(m) == [ n \in AllFovNames(m) |-> [ e \in FileKinds |-> FALSE ] ]

VARIABLES
    manifest,                 \* the parsed run json (read once, at construction)
    moly_points,              \* RunStructure.moly_points
    fov_progress,             \* RunStructure.fov_progress
    processed_fovs,           \* RunStructure.processed_fovs
    last_fov_num_processed,   \* FOV_EventHandler.last_fov_num_processed
    calls,                    \* trace of callback invocations
    timeouts,                 \* FOV names whose TimeoutError the handler caught
    phase,                    \* "walk": inside __init__'s os.walk; "watch": live events
    delivered,                \* history of the events handled so far
    returned,                 \* what the last direct call of a RunStructure method returned
    lock,                     \* FOV_EventHandler.lock: the thread that holds it
    pc,                       \* where each thread is inside on_created / on_moved
    job,                      \* the locals of each thread's handler
    interrupted,              \* start_watcher caught a KeyboardInterrupt
    files,                    \* the files of the run folder
    listing,                  \* the part of os.walk's listing __init__ has not handled yet
    queue,                    \* the observer's event queue
    timeout,                  \* RunStructure.timeout
    wait_time,                \* check_run_condition's local wait_time
    slept,                    \* the calls of time.sleep check_run_condition made in its wait
    inter_func,               \* FOV_EventHandler.inter_func is set (not None)
    necessary_fovs            \* check_fov_progress's local, for the call start_watcher is in

\* what the handler threads and start_watcher add to the state
wait_loop == << timeout, wait_time, slept >>

\* no FOV name: the polling loop is not inside check_fov_progress
NoPoll == << >>

aux == << returned, lock, pc, job, interrupted, files, listing, queue, wait_loop,
         inter_func, necessary_fovs >>

vars == << manifest, moly_points, fov_progress, processed_fovs,
           last_fov_num_processed, calls, timeouts, phase, delivered, aux >>

\* the part of the state one event handler reads and writes
Handler ==
    [ fov_progress |-> fov_progress,
      processed_fovs |-> processed_fovs,
      last_fov_num_processed |-> last_fov_num_processed,
      calls |-> calls,
      timeouts |-> timeouts ]

\* --------------------------------------------------------- callback values
IdArg(name) == [ form |-> "id", ord |-> name[1], scan |-> name[2] ]

DashPath(i) == [ form |-> "dash_path", ord |-> i, scan |-> 1 ]

UnderscorePath(i) == [ form |-> "underscore_path", ord |-> i, scan |-> 1 ]

\* ---------------------------------------------------------------- tracker
\* any() in place of all() over the flags of one FOV
AnyTrue(f) == \E k \in DOMAIN f : f[k]

\* all(self.fov_progress[fov_name].values())
AllTrue(f) == \A k \in DOMAIN f : f[k]

\* check_fov_progress with any() in place of all()
check_fov_progress_any(fp) ==
    [ k \in (DOMAIN fp) \ moly_points |-> \E e \in DOMAIN fp[k] : fp[k][e] ]

\* check_fov_progress without the difference with moly_points
check_fov_progress_with_moly(fp) ==
    [ k \in DOMAIN fp |-> AllTrue(fp[k]) ]

\* {k: all(self.fov_progress[k].values()) for k in set(all_fovs).difference(moly_fovs)}
check_fov_progress(fp) ==
    [ k \in (DOMAIN fp) \ moly_points |-> AllTrue(fp[k]) ]

\* the test for a moly point left out
InMoly_skipped(name) == FALSE

\* fov_name in self.moly_points
InMoly(name) == name \in moly_points

\* the test for a processed FOV left out
InProcessed_skipped(h, name) == FALSE

\* fov_name in self.processed_fovs
InProcessed(h, name) ==
    \E k \in 1 .. Len(h.processed_fovs) : h.processed_fovs[k] = IdArg(name)

processed(h, point_name) ==
    [ h EXCEPT !.processed_fovs = Append(@, point_name) ]

\* timed_out without the del
timed_out_keeps_entry(h, name) ==
    [ h EXCEPT !.timeouts = @ \cup { name } ]

\* timed_out that clears the flags of the entry in place of the del
timed_out_resets_entry(h, name) ==
    [ h EXCEPT !.fov_progress[name] = [ e \in FileKinds |-> FALSE ],
               !.timeouts = @ \cup { name } ]

\* del self.fov_progress[fov_name]; raise TimeoutError
timed_out(h, name) ==
    [ h EXCEPT !.fov_progress = [ k \in (DOMAIN @) \ { name } |-> @[k] ],
               !.timeouts = @ \cup { name } ]

Result(h, ready, name, raised) ==
    [ h |-> h, ready |-> ready, name |-> name, timeout |-> raised ]

\* the returned name ""
NoName == << >>

\* filename.split(".")[0]
Stem(path) == << path.ord, path.scan >>

\* path: [kind, ord, scan, ext]; kind "fov" is <dir>/fov-<ord>-scan-<scan>.<ext>,
\* kind "manifest" is <dir>/<run_name>.json, kind "malformed" is a file name that
\* does not split into two parts at its dots, kind "hidden" is a file name that
\* starts with a dot and has a further dot (.fov-1-scan-1.bin.tmp).  size: "nonzero", or "zero" for a
\* file that stays empty for the whole wait; exists: os.path.exists(path).
check_run_condition(h, path, exists, size) ==
    LET fov_name == Stem(path)
    IN  IF path.kind = "hidden" THEN Result(h, FALSE, NoName, FALSE)
        ELSE IF path.kind = "malformed" THEN Result(h, FALSE, NoName, FALSE)
        ELSE IF ~exists THEN Result(h, FALSE, NoName, FALSE)
        ELSE IF InProcessed(h, fov_name)
            THEN Result(h, FALSE, fov_name, FALSE)
        ELSE IF InMoly(fov_name)
            THEN Result(h, FALSE, fov_name, FALSE)
        ELSE IF fov_name \in DOMAIN h.fov_progress
            THEN IF path.ext \in DOMAIN h.fov_progress[fov_name] /\ size = "zero"
                    THEN Result(timed_out(h, fov_name), FALSE, fov_name, TRUE)
                 ELSE LET h1 == IF path.ext \in DOMAIN h.fov_progress[fov_name]
                                   THEN [ h EXCEPT !.fov_progress[fov_name][path.ext] = TRUE ]
                                   ELSE h
                      IN  IF AllTrue(h1.fov_progress[fov_name])
                             THEN Result(h1, TRUE, fov_name, FALSE)
                             ELSE Result(h1, FALSE, fov_name, FALSE)
        ELSE IF path.ext = "bin" THEN Result(h, FALSE, NoName, FALSE)
        ELSE Result(h, FALSE, fov_name, FALSE)

\* ------------------------------------------------------------ orchestrator
FovCall(point_name) == [ f |-> "fov", arg |-> point_name ]

\* the per-run call, with the fov_progress it was made in
RunCall(fp) == [ f |-> "run", arg |-> fp ]

\* check_complete without the all() test
check_complete_unguarded(h) ==
    [ h EXCEPT !.calls = Append(@, RunCall(h.fov_progress)) ]

check_complete(h) ==
    IF AllTrue(check_fov_progress(h.fov_progress))
        THEN [ h EXCEPT !.calls = Append(@, RunCall(h.fov_progress)) ]
        ELSE h

generate_callback_data(h, point_name) ==
    check_complete(processed([ h EXCEPT !.calls = Append(@, FovCall(point_name)) ], point_name))

RECURSIVE MissedLoop(_, _, _)
\* for i in np.arange(i, stop): self._generate_callback_data(bin_dir / f"fov-{i}-scan-1.bin")
MissedLoop(h, i, stop) ==
    IF i >= stop THEN h
    ELSE MissedLoop(generate_callback_data(h, DashPath(i)), i + 1, stop)

process_missed_fovs(h, path) ==
    IF path.kind \in { "hidden", "malformed" } \/ path.ext # "bin" THEN h
    ELSE IF path.scan > 1 THEN h
    ELSE IF path.ord - 1 = h.last_fov_num_processed THEN h
    ELSE MissedLoop(h, h.last_fov_num_processed + 1, path.ord)

RECURSIVE LastLoop(_, _, _)
\* for i in np.arange(i, stop): self._generate_callback_data(bin_dir / f"fov-{i}_scan_1.bin")
LastLoop(h, i, stop) ==
    IF i >= stop THEN h
    ELSE LastLoop(generate_callback_data(h, UnderscorePath(i)), i + 1, stop)

\* os.path.join(bin_dir / last_fov) is a non-empty string: the test always passes
check_last_fov(h, path) ==
    LET num_fovs == Cardinality(DOMAIN h.fov_progress)
    IN  check_complete(LastLoop(h, h.last_fov_num_processed + 1, num_fovs + 1))

\* _run_callbacks whose except branch leaves out self.check_complete()
run_callbacks_dispatch_silent_timeout(r, path) ==
    IF r.timeout
        THEN [ r.h EXCEPT !.last_fov_num_processed = path.ord + 1 ]
    ELSE IF r.ready
        THEN [ generate_callback_data(r.h, IdArg(r.name))
                 EXCEPT !.last_fov_num_processed = r.name[1] + 1 ]
    ELSE r.h

\* _run_callbacks that sets the marker to the ordinal itself
run_callbacks_dispatch_marker_at_ordinal(r, path) ==
    IF r.timeout
        THEN [ check_complete(r.h) EXCEPT !.last_fov_num_processed = path.ord ]
    ELSE IF r.ready
        THEN [ generate_callback_data(r.h, IdArg(r.name))
                 EXCEPT !.last_fov_num_processed = r.name[1] ]
    ELSE r.h

\* what _run_callbacks does with r, the outcome of check_run_condition
run_callbacks_dispatch(r, path) ==
    IF r.timeout
        THEN [ check_complete(r.h) EXCEPT !.last_fov_num_processed = path.ord + 1 ]
    ELSE IF r.ready
        THEN [ generate_callback_data(r.h, IdArg(r.name))
                 EXCEPT !.last_fov_num_processed = r.name[1] + 1 ]
    ELSE r.h

run_callbacks(h, path, exists, size) ==
    LET h1 == process_missed_fovs(h, path)
        r == check_run_condition(h1, path, exists, size)
    IN  run_callbacks_dispatch(r, path)

\* with self.lock: self._run_callbacks(event); self._check_last_fov(event.src_path)
on_created(h, path, exists, size) ==
    check_last_fov(run_callbacks(h, path, exists, size), path)

\* ------------------------------------------------------------------ events
\* <run_folder>/<run_name>.json
ManifestPath == [ kind |-> "manifest", ord |-> 0, scan |-> 0, ext |-> "json" ]

\* <run_folder>/fov-<i>-scan-<s>.<e>
FovFile(i, s, e) == [ kind |-> "fov", ord |-> i, scan |-> s, ext |-> e ]

\* the bin and json files of the FOVs of the manifest
FovPaths(m) == { FovFile(n[1], n[2], e) : n \in AllFovNames(m), e \in FileKinds }

Sizes == { "nonzero", "zero" }

\* the decimal digits of n as they stand in a file name
Digits(n) == IF n < 10 THEN << n >> ELSE << n \div 10, n % 10 >>

\* two numbers of file names compared as text: the character after a number
\* ("-" or ".") sorts before every digit
TextLess(a, b) ==
    LET x == Digits(a)
        y == Digits(b)
    IN  \/ \E i \in 1 .. Len(x) :
              /\ i <= Len(y)
              /\ \A j \in 1 .. i - 1 : x[j] = y[j]
              /\ x[i] < y[i]
        \/ /\ Len(x) < Len(y)
           /\ \A j \in 1 .. Len(x) : x[j] = y[j]

\* the order of sorted(files): file names compared character by character
LexLess(p, q) ==
    IF p.kind = "manifest" THEN FALSE
    ELSE IF q.kind = "manifest" THEN TRUE
    ELSE \/ TextLess(p.ord, q.ord)
         \/ p.ord = q.ord /\ TextLess(p.scan, q.scan)
         \/ p.ord = q.ord /\ p.scan = q.scan /\ p.ext = "bin" /\ q.ext = "json"

\* natsort order of two file names of the run folder; the run name sorts after "fov"
NatLess(p, q) ==
    IF p.kind = "manifest" THEN FALSE
    ELSE IF q.kind = "manifest" THEN TRUE
    ELSE \/ p.ord < q.ord
         \/ p.ord = q.ord /\ p.scan < q.scan
         \/ p.ord = q.ord /\ p.scan = q.scan /\ p.ext = "bin" /\ q.ext = "json"

Event(path, size, live) == [ path |-> path, size |-> size, live |-> live ]

\* the threads that call the handler: start_watcher's thread and the observer's
Threads == { "main", "observer" }

NoThread == "none"

\* no RunStructure method was called directly
NoReturn ==
    [ op |-> "none", path |-> ManifestPath, exists |-> FALSE, size |-> "nonzero",
      ready |-> FALSE, name |-> NoName, raised |-> FALSE ]

\* the locals of a thread that is in no handler
NoJob ==
    [ path |-> ManifestPath, size |-> "nonzero", wait |-> 0,
      ready |-> FALSE, name |-> NoName, raised |-> FALSE ]

\* -------------------------------------------------- the arithmetic of wait_time
\* start_watcher's default for zero_size_timeout
zero_size_timeout == 7800

\* the bits of the significand of a Python float (IEEE 754 binary64)
Mantissa == 53

Zeros(n) == [ i \in 1 .. n |-> 0 ]

\* a float is its exponent e and the bits m of its significand, highest first:
\* the value is m[1].m[2]m[3]... times 2^e; the float 0.0 has no bits
FloatZero == [ e |-> 0, m |-> << >> ]

RECURSIVE IntBits(_)
\* the binary digits of the int t, highest first
IntBits(t) == IF t = 0 THEN << >> ELSE Append(IntBits(t \div 2), t % 2)

\* the int t as a float (exact for the small ints used here)
float_of_int(t) ==
    IF t = 0 THEN FloatZero
    ELSE LET b == IntBits(t)
         IN  [ e |-> Len(b) - 1, m |-> b \o Zeros(Mantissa - Len(b)) ]

\* bits + 1, one bit longer when every bit is 1
Increment(bits) ==
    LET n == Len(bits)
        flips(i) == \A j \in i + 1 .. n : bits[j] = 1
    IN  IF \A j \in 1 .. n : bits[j] = 1
           THEN << 1 >> \o Zeros(n)
           ELSE [ i \in 1 .. n |-> IF flips(i) THEN 1 - bits[i] ELSE bits[i] ]

\* round-half-to-even of the exact significand bits (sticky: a nonzero rest
\* beyond bits) to Mantissa bits
RoundToEven(bits, e, sticky) ==
    LET keep == SubSeq(bits, 1, Mantissa)
        rest == SubSeq(bits, Mantissa + 1, Len(bits))
        half == rest # << >> /\ rest[1] = 1
        more == sticky \/ \E i \in 2 .. Len(rest) : rest[i] = 1
        up == half /\ ( more \/ keep[Mantissa] = 1 )
        inc == Increment(keep)
    IN  IF ~up THEN [ e |-> e, m |-> keep ]
        ELSE IF Len(inc) > Mantissa THEN [ e |-> e + 1, m |-> SubSeq(inc, 1, Mantissa) ]
        ELSE [ e |-> e, m |-> inc ]

\* the exact sum of two bit strings of one length, one bit longer
AddBits(a, b) ==
    LET n == Len(a)
        carry(i) == \E j \in i + 1 .. n :
                       /\ a[j] + b[j] = 2
                       /\ \A k \in i + 1 .. j - 1 : a[k] + b[k] = 1
        c(i) == IF carry(i) THEN 1 ELSE 0
    IN  << c(0) >> \o [ i \in 1 .. n |-> ( a[i] + b[i] + c(i) ) % 2 ]

\* x + y of two non-negative floats
float_add(x, y) ==
    IF x.m = << >> THEN y
    ELSE IF y.m = << >> THEN x
    ELSE LET hi == IF x.e >= y.e THEN x ELSE y
             lo == IF x.e >= y.e THEN y ELSE x
             d == hi.e - lo.e
             s == AddBits(hi.m \o Zeros(d), Zeros(d) \o lo.m)
         IN  IF s[1] = 1 THEN RoundToEven(s, hi.e + 1, FALSE)
             ELSE RoundToEven(Tail(s), hi.e, FALSE)

RECURSIVE Normalised(_, _, _)
\* n / d scaled by a power of two into [1, 2), with the exponent taken out
Normalised(n, d, e) ==
    IF n < d THEN Normalised(2 * n, d, e - 1)
    ELSE IF n >= 2 * d THEN Normalised(n, 2 * d, e + 1)
    ELSE << n, d, e >>

RECURSIVE PowMod(_, _)
\* 2^k mod d
PowMod(k, d) ==
    IF k = 0 THEN 1 % d
    ELSE LET h == PowMod(k \div 2, d)
         IN  ( h * h * ( IF k % 2 = 1 THEN 2 ELSE 1 ) ) % d

\* the remainder of the long division rem / d after k further bits
Remainder(rem, d, k) == ( rem * PowMod(k, d) ) % d

\* the next k bits of the long division rem / d
QuotientBits(rem, d, k) ==
    [ i \in 1 .. k |-> IF 2 * Remainder(rem, d, i - 1) >= d THEN 1 ELSE 0 ]

\* t / d of two positive ints as a float, correctly rounded
float_div(t, d) ==
    LET n == Normalised(t, d, 0)
        rem == n[1] - n[2]
    IN  RoundToEven(<< 1 >> \o QuotientBits(rem, n[2], Mantissa), n[3],
                    Remainder(rem, n[2], Mantissa) # 0)

\* x >= y of two non-negative floats
float_ge(x, y) ==
    IF y.m = << >> THEN TRUE
    ELSE IF x.m = << >> THEN FALSE
    ELSE IF x.e # y.e THEN x.e > y.e
    ELSE \/ x.m = y.m
         \/ \E i \in 1 .. Mantissa :
               /\ x.m[i] > y.m[i]
               /\ \A j \in 1 .. i - 1 : x.m[j] = y.m[j]

\* one handler at a time, called from one thread, nothing beside it
AuxInit ==
    /\ returned = NoReturn
    /\ lock = NoThread
    /\ pc = [ t \in Threads |-> "idle" ]
    /\ job = [ t \in Threads |-> NoJob ]
    /\ interrupted = FALSE
    /\ files = { }
    /\ listing = << >>
    /\ queue = << >>
    /\ timeout = zero_size_timeout
    /\ wait_time = FloatZero
    /\ slept = 0
    /\ inter_func = FALSE
    /\ necessary_fovs = NoPoll

Init ==
    /\ AuxInit
    /\ manifest \in Manifests
    /\ moly_points = MolyPoints(manifest)
    /\ fov_progress = InitialProgress(manifest)
    /\ processed_fovs = << >>
    /\ last_fov_num_processed = 0
    /\ calls = << >>
    /\ timeouts = { }
    /\ phase = "walk"
    /\ delivered = << >>

Empties == { k \in 1 .. Len(delivered) : delivered[k].size = "zero" }

EventBudget == IF Len(manifest) > 4 THEN MaxEventsLong ELSE MaxEvents

Bounded(size) ==
    /\ Len(delivered) < EventBudget
    /\ Len(calls) <= MaxCalls
    /\ size = "zero" => Cardinality(Empties) < MaxEmpty

Handle(path, size, live) ==
    LET h == on_created(Handler, path, TRUE, size)
    IN  /\ fov_progress' = h.fov_progress
        /\ processed_fovs' = h.processed_fovs
        /\ last_fov_num_processed' = h.last_fov_num_processed
        /\ calls' = h.calls
        /\ timeouts' = h.timeouts
        /\ delivered' = Append(delivered, Event(path, size, live))
        /\ UNCHANGED << manifest, moly_points >>

\* __init__: one synthesized creation event per file of the run folder, natsorted;
\* the manifest is always there and is the last one
WalkEvent(path, size) ==
    /\ phase = "walk"
    /\ Bounded(size)
    /\ delivered # << >> => NatLess(delivered[Len(delivered)].path, path)
    /\ path.kind = "manifest" => size = "nonzero"
    /\ Handle(path, size, FALSE)
    /\ phase' = IF path.kind = "manifest" THEN "watch" ELSE "walk"
    /\ UNCHANGED aux

\* a creation event delivered by the observer
LiveEvent(path, size) ==
    /\ phase = "watch"
    /\ Bounded(size)
    /\ Handle(path, size, TRUE)
    /\ phase' = phase
    /\ UNCHANGED aux

Next ==
    \/ \E path \in FovPaths(manifest) \cup { ManifestPath }, size \in Sizes : WalkEvent(path, size)
    \/ \E path \in FovPaths(manifest), size \in Sizes : LiveEvent(path, size)

Spec == Init /\ [][Next]_vars

\* ------------------------------------------------------- reading the trace
IsFovCall(c) == c.f = "fov"

IsRunCall(c) == c.f = "run"

FovCalls == SelectSeq(calls, IsFovCall)

\* the FOV ordinal each per-FOV invocation was made for, in invocation order
FovCallOrds == [ k \in 1 .. Len(FovCalls) |-> FovCalls[k].arg.ord ]

NumRunCalls == Len(SelectSeq(calls, IsRunCall))

\* per-FOV invocations made for FOV n, whatever the form of the argument
NumFovCalls(n) ==
    Cardinality({ k \in 1 .. Len(FovCalls) :
                    FovCalls[k].arg.ord = n[1] /\ FovCalls[k].arg.scan = n[2] })

\* no two per-FOV invocations were made for the same FOV
NoFovCalledTwice ==
    \A j, k \in 1 .. Len(FovCalls) :
        j # k => << FovCalls[j].arg.ord, FovCalls[j].arg.scan >>
                   # << FovCalls[k].arg.ord, FovCalls[k].arg.scan >>

BothFlags(fp, n) == fp[n]["json"] /\ fp[n]["bin"]

IsFovEvent(e) == e.path.kind = "fov"

FovEvents == SelectSeq(delivered, IsFovEvent)

AllNonEmpty == \A k \in 1 .. Len(delivered) : delivered[k].size = "nonzero"

InOrdinalOrder ==
    \A j, k \in 1 .. Len(FovEvents) :
        j < k => FovEvents[j].path.ord <= FovEvents[k].path.ord

DeliveredPaths == { delivered[k].path : k \in 1 .. Len(delivered) }

\* ------------------------------------------------------------------ claims

\* C1: the per-FOV callback is invoked at most once for each FOV of the manifest,
\* and exactly once for each (non-moly) FOV whose bin and json files were both
\* observed with non-zero size.
C1_PerFovCallbackOnce ==
    \A n \in AllFovNames(manifest) :
        /\ NumFovCalls(n) <= 1
        /\ ( n \notin moly_points /\ n \in DOMAIN fov_progress /\ BothFlags(fov_progress, n) )
             => NumFovCalls(n) = 1

\* C2: the per-run callback is invoked at most once over the whole run.
C2_PerRunCallbackOnce == NumRunCalls <= 1

\* C3: every per-run invocation was made in a fov_progress in which each tracked
\* non-moly FOV had both its json and its bin flag true.
C3_RunCallOnlyWhenComplete ==
    \A k \in 1 .. Len(calls) :
        IsRunCall(calls[k]) =>
            \A n \in (DOMAIN calls[k].arg) \ moly_points : BothFlags(calls[k].arg, n)

\* C3 witness: the per-run callback was invoked while a non-moly FOV was tracked.
C3_Witness ==
    \E k \in 1 .. Len(calls) :
        IsRunCall(calls[k]) /\ (DOMAIN calls[k].arg) \ moly_points # { }

\* C4: when every file arrives non-empty and the FOV events are delivered in
\* ordinal order, the per-FOV invocations are in non-decreasing ordinal order.
C4_CallsInOrdinalOrder ==
    ( AllNonEmpty /\ InOrdinalOrder ) =>
        \A j, k \in 1 .. Len(FovCallOrds) : j < k => FovCallOrds[j] <= FovCallOrds[k]

\* C5: with five single-scan FOVs, once the only FOV events delivered are FOV 5's
\* bin and json, each FOV has exactly one per-FOV invocation, in order 1..5.
C5_BackfillFive ==
    ( /\ manifest = Manifest5
      /\ AllNonEmpty
      /\ { e.path : e \in { FovEvents[k] : k \in 1 .. Len(FovEvents) } }
           = { FovFile(5, 1, "bin"), FovFile(5, 1, "json") } )
    => FovCallOrds = << 1, 2, 3, 4, 5 >>

\* C6: handling the same creation event a second time in a row never gives any
\* FOV a second per-FOV invocation.
C6_DuplicateEventAddsNoCall ==
    [][ ( /\ delivered # << >>
          /\ Len(delivered') = Len(delivered) + 1
          /\ delivered'[Len(delivered')].path = delivered[Len(delivered)].path
          /\ NoFovCalledTwice )
        => NoFovCalledTwice' ]_vars

\* C7: two single-scan FOVs, files delivered non-empty in the order fov-1 json,
\* fov-1 bin, fov-2 json, fov-2 bin: exactly two per-FOV invocations (fov-1 then
\* fov-2) and exactly one per-run invocation.
C7_TwoFovScenario ==
    ( /\ manifest = Manifest2
      /\ delivered = << Event(ManifestPath, "nonzero", FALSE),
                        Event(FovFile(1, 1, "json"), "nonzero", TRUE),
                        Event(FovFile(1, 1, "bin"), "nonzero", TRUE),
                        Event(FovFile(2, 1, "json"), "nonzero", TRUE),
                        Event(FovFile(2, 1, "bin"), "nonzero", TRUE) >> )
    => ( FovCallOrds = << 1, 2 >> /\ NumRunCalls = 1 )

\* the event the step handles is for a file of FOV n that stays empty, and n is
\* tracked, is no moly point and was not processed
EmptyFileOfPending(n) ==
    /\ Len(delivered') = Len(delivered) + 1
    /\ delivered'[Len(delivered')].size = "zero"
    /\ delivered'[Len(delivered')].path.kind = "fov"
    /\ n = Stem(delivered'[Len(delivered')].path)
    /\ n \in DOMAIN fov_progress
    /\ n \notin moly_points
    /\ ~InProcessed(Handler, n)

\* C8: a file of a tracked, non-moly, unprocessed FOV that stays empty for the whole
\* wait makes check_run_condition time out and remove exactly that FOV's entry; no
\* entry ever comes back, a timed-out FOV is no key of check_fov_progress(), and
\* the flags and the reported completion of the other FOVs are as before.
C8_TimeoutDropsOnlyThatFov ==
    [][ /\ DOMAIN fov_progress' \subseteq DOMAIN fov_progress
        /\ timeouts \subseteq timeouts'
        /\ \A n \in timeouts' : n \notin DOMAIN check_fov_progress(fov_progress')
        /\ \A n \in AllFovNames(manifest) :
             EmptyFileOfPending(n) =>
                /\ n \in timeouts'
                /\ fov_progress' = [ k \in (DOMAIN fov_progress) \ { n } |-> fov_progress[k] ]
                /\ \A k \in (DOMAIN check_fov_progress(fov_progress)) \ { n } :
                     check_fov_progress(fov_progress')[k] = check_fov_progress(fov_progress)[k]
      ]_vars

\* C8 witness: a FOV timed out while another FOV had a flag set, and a later
\* event was handled for a file of the timed-out FOV.
C8_Witness ==
    \E n \in timeouts :
        /\ n \notin DOMAIN fov_progress
        /\ \E m \in DOMAIN fov_progress : fov_progress[m]["json"] \/ fov_progress[m]["bin"]
        /\ \E j, k \in 1 .. Len(delivered) :
             /\ j < k
             /\ delivered[j].size = "zero"
             /\ Stem(delivered[j].path) = n
             /\ Stem(delivered[k].path) = n

\* C9: check_fov_progress() has exactly the tracked non-moly FOVs as keys and maps
\* a key to true exactly when both its json and its bin flag are true.
C9_ProgressReport ==
    LET report == check_fov_progress(fov_progress)
    IN  \A n \in AllFovNames(manifest) :
            /\ n \in DOMAIN report <=> ( n \in DOMAIN fov_progress /\ n \notin moly_points )
            /\ n \in DOMAIN report => ( report[n] <=> BothFlags(fov_progress, n) )

\* C9 witness: one FOV is reported complete, another is reported incomplete with
\* one of its flags set.
C9_Witness ==
    LET report == check_fov_progress(fov_progress)
    IN  \E n, m \in DOMAIN report :
            /\ report[n]
            /\ ~report[m]
            /\ fov_progress[m]["json"] \/ fov_progress[m]["bin"]

\* C10: no moly FOV identifier is a key of check_fov_progress().
C10_MolyNeverReported ==
    \A n \in moly_points : n \notin DOMAIN check_fov_progress(fov_progress)

\* C10 witness: both files of a moly FOV were delivered non-empty.
C10_Witness ==
    \E n \in moly_points :
        \A e \in FileKinds :
            \E k \in 1 .. Len(delivered) :
                /\ delivered[k].path = FovFile(n[1], n[2], e)
                /\ delivered[k].size = "nonzero"

\* C11: the per-FOV callback is never invoked for a moly FOV, whether through
\* readiness, through the missed-FOV backfill or through the last-FOV check.
C11_MolyNeverDispatched ==
    \A k \in 1 .. Len(FovCalls) :
        << FovCalls[k].arg.ord, FovCalls[k].arg.scan >> \notin moly_points

\* the last FOV of the manifest
FinalFov == << manifest[Len(manifest)].runOrder, 1 >>

\* some event was delivered for a file of FOV n
EventSeen(n) == \E k \in 1 .. Len(delivered) : Stem(delivered[k].path) = n

\* the events of the earlier FOVs were dropped and the backfill or the last-FOV
\* check dispatched each of them; both files of the final FOV arrived non-empty
DroppedButFinalDelivered ==
    /\ AllNonEmpty
    /\ FinalFov \in DOMAIN fov_progress
    /\ BothFlags(fov_progress, FinalFov)
    /\ \A n \in AllFovNames(manifest) \ ( moly_points \cup { FinalFov } ) :
          ~EventSeen(n) /\ NumFovCalls(n) >= 1

\* C17: when the events of earlier FOVs were dropped and those FOVs were dispatched
\* by the backfill or the last-FOV check, then once both files of the final FOV
\* were delivered non-empty the per-run callback has been invoked and
\* check_fov_progress() reports every remaining FOV complete.
C17_DroppedEventsStillComplete ==
    DroppedButFinalDelivered =>
        ( NumRunCalls >= 1 /\ AllTrue(check_fov_progress(fov_progress)) )

\* C18: every per-FOV invocation received a FOV identifier of the manifest,
\* "fov-<runOrder>-scan-<scanIndex>", and that identifier is in processed_fovs.
C18_CallbackGetsManifestId ==
    \A k \in 1 .. Len(FovCalls) :
        /\ FovCalls[k].arg.form = "id"
        /\ << FovCalls[k].arg.ord, FovCalls[k].arg.scan >> \in AllFovNames(manifest)
        /\ \E j \in 1 .. Len(processed_fovs) : processed_fovs[j] = FovCalls[k].arg

\* ------------------------------------------- RunStructure called directly
\* processed() calls made on one RunStructure
MaxProcessed == 2

TrackerManifests == { Manifest2, ManifestMoly, ManifestScans }

TrackerInit ==
    /\ AuxInit
    /\ manifest \in TrackerManifests
    /\ moly_points = MolyPoints(manifest)
    /\ fov_progress = InitialProgress(manifest)
    /\ processed_fovs = << >>
    /\ last_fov_num_processed = 0
    /\ calls = << >>
    /\ timeouts = { }
    /\ phase = "tracker"
    /\ delivered = << >>

\* is_ready, point_name = run_structure.check_run_condition(path), or TimeoutError
CheckRunCondition(path, exists, size) ==
    LET r == check_run_condition(Handler, path, exists, size)
    IN  /\ fov_progress' = r.h.fov_progress
        /\ processed_fovs' = r.h.processed_fovs
        /\ timeouts' = r.h.timeouts
        /\ returned' = [ op |-> "check_run_condition", path |-> path, exists |-> exists,
                         size |-> size, ready |-> r.ready, name |-> r.name,
                         raised |-> r.timeout ]
        /\ UNCHANGED << wait_loop, inter_func, necessary_fovs, manifest, moly_points, last_fov_num_processed, calls, phase, delivered,
                        lock, pc, job, interrupted, files, listing, queue >>

\* run_structure.processed(fov_name)
Processed(name) ==
    LET h == processed(Handler, IdArg(name))
    IN  /\ Len(processed_fovs) < MaxProcessed
        /\ processed_fovs' = h.processed_fovs
        /\ fov_progress' = h.fov_progress
        /\ returned' = [ NoReturn EXCEPT !.op = "processed", !.name = name ]
        /\ UNCHANGED << wait_loop, inter_func, necessary_fovs, manifest, moly_points, last_fov_num_processed, calls, timeouts, phase,
                        delivered, lock, pc, job, interrupted, files, listing, queue >>

TrackerNext ==
    \/ \E path \in FovPaths(manifest) \cup { ManifestPath }, exists \in BOOLEAN, size \in Sizes :
          CheckRunCondition(path, exists, size)
    \/ \E name \in AllFovNames(manifest) : Processed(name)

SpecTracker == TrackerInit /\ [][TrackerNext]_vars

\* the FOV identifier n is an element of processed_fovs
Recorded(n) == \E k \in 1 .. Len(processed_fovs) : processed_fovs[k] = IdArg(n)

\* C12: for a FOV recorded by processed(fov_id), a call of check_run_condition
\* on an existing path of that FOV returns (False, fov_id) whatever the flags of
\* the FOV are, raises nothing, and leaves fov_progress and processed_fovs as
\* they were, so that a second call returns the same.
C12_ProcessedShortCircuit ==
    [][ ( /\ returned'.op = "check_run_condition"
          /\ returned'.exists
          /\ returned'.path.kind = "fov"
          /\ Recorded(Stem(returned'.path)) )
        => ( /\ ~returned'.ready
             /\ ~returned'.raised
             /\ returned'.name = Stem(returned'.path)
             /\ fov_progress' = fov_progress
             /\ processed_fovs' = processed_fovs ) ]_vars

\* C12 witness: check_run_condition was called on an empty file of a FOV that
\* processed() recorded before both its flags were set; it returned (False, fov_id).
C12_Witness ==
    /\ returned.op = "check_run_condition"
    /\ returned.exists
    /\ returned.path.kind = "fov"
    /\ Recorded(Stem(returned.path))
    /\ Stem(returned.path) \in DOMAIN fov_progress
    /\ ~BothFlags(fov_progress, Stem(returned.path))
    /\ returned.size = "zero"
    /\ ~returned.ready
    /\ returned.name = Stem(returned.path)

\* ------------------------------------- handlers called from two threads
\* events handled by the two threads together
MaxLockEvents == 3

\* time.sleep(self.timeout / 10): sleeps that add up to the timeout
PollIntervals == 10

LockManifests == { Manifest2, ManifestMoly }

\* Lock.acquire() without the wait for the holder
acquire_unlocked(l) == TRUE

\* with self.lock: Lock.acquire() returns once no thread holds the lock
acquire(l) == l = NoThread

\* time.sleep() with the lock given up for the sleep
sleeping_released(l) == NoThread

\* the lock during time.sleep(self.timeout / 10), inside with self.lock
sleeping(l) == l

\* check_run_condition gets as far as os.path.getsize(path)
ReadsSize(h, path) ==
    LET fov_name == Stem(path)
    IN  /\ ~InProcessed(h, fov_name)
        /\ fov_name \notin moly_points
        /\ fov_name \in DOMAIN h.fov_progress
        /\ path.ext \in DOMAIN h.fov_progress[fov_name]

\* the handler's writes to the shared state
Store(h) ==
    /\ fov_progress' = h.fov_progress
    /\ processed_fovs' = h.processed_fovs
    /\ last_fov_num_processed' = h.last_fov_num_processed
    /\ calls' = h.calls
    /\ timeouts' = h.timeouts

LockInit ==
    /\ AuxInit
    /\ manifest \in LockManifests
    /\ moly_points = MolyPoints(manifest)
    /\ fov_progress = InitialProgress(manifest)
    /\ processed_fovs = << >>
    /\ last_fov_num_processed = 0
    /\ calls = << >>
    /\ timeouts = { }
    /\ phase = "watch"
    /\ delivered = << >>

\* handlers that have not yet recorded their event in delivered
Started == { t \in Threads : pc[t] \in { "process_missed_fovs", "check_run_condition" } }

\* thread t enters on_created (on_moved is the same code on event.dest_path)
Enter(t, path) ==
    /\ pc[t] = "idle"
    /\ acquire(lock)
    /\ lock' = t
    /\ pc' = [ pc EXCEPT ![t] = "process_missed_fovs" ]
    /\ job' = [ job EXCEPT ![t] = [ NoJob EXCEPT !.path = path ] ]
    /\ UNCHANGED << wait_loop, inter_func, necessary_fovs, manifest, moly_points, fov_progress, processed_fovs,
                    last_fov_num_processed, calls, timeouts, phase, delivered,
                    returned, interrupted, files >>

\* an event reaches the handler in thread t
Begin(t, path) ==
    /\ Len(delivered) + Cardinality(Started) < MaxLockEvents
    /\ Len(calls) <= MaxCalls
    /\ Enter(t, path)
    /\ UNCHANGED << listing, queue >>

\* self._process_missed_fovs(file_trigger)
Missed(t) ==
    /\ pc[t] = "process_missed_fovs"
    /\ Store(process_missed_fovs(Handler, job[t].path))
    /\ pc' = [ pc EXCEPT ![t] = "check_run_condition" ]
    /\ UNCHANGED << wait_loop, inter_func, necessary_fovs, manifest, moly_points, phase, delivered, lock, job,
                    returned, interrupted, files, listing, queue >>

\* one turn of check_run_condition's wait loop that finds the file empty before
\* the timeout and sleeps, or the rest of check_run_condition
Check(t, size_now) ==
    /\ pc[t] = "check_run_condition"
    /\ ~ReadsSize(Handler, job[t].path) => size_now = "nonzero"
    /\ size_now = "zero" => Cardinality(Empties) < MaxEmpty
    /\ IF ReadsSize(Handler, job[t].path) /\ size_now = "zero" /\ job[t].wait < PollIntervals
          THEN /\ job' = [ job EXCEPT ![t].wait = @ + 1 ]
               /\ lock' = sleeping(lock)
               /\ UNCHANGED << fov_progress, processed_fovs, last_fov_num_processed,
                               calls, timeouts, pc, delivered >>
          ELSE LET r == check_run_condition(Handler, job[t].path, TRUE, size_now)
               IN  /\ Store(r.h)
                   /\ job' = [ job EXCEPT ![t] = [ path |-> job[t].path, size |-> size_now,
                                                   wait |-> 0, ready |-> r.ready,
                                                   name |-> r.name, raised |-> r.timeout ] ]
                   /\ pc' = [ pc EXCEPT ![t] = "dispatch" ]
                   /\ delivered' = Append(delivered, Event(job[t].path, size_now, t = "observer"))
                   /\ lock' = lock
    /\ UNCHANGED << wait_loop, inter_func, necessary_fovs, manifest, moly_points, phase, returned, interrupted, files, listing, queue >>

\* the rest of _run_callbacks: the callbacks and the marker
Dispatch(t) ==
    /\ pc[t] = "dispatch"
    /\ Store(run_callbacks_dispatch(Result(Handler, job[t].ready, job[t].name, job[t].raised),
                                    job[t].path))
    /\ pc' = [ pc EXCEPT ![t] = "check_last_fov" ]
    /\ UNCHANGED << wait_loop, inter_func, necessary_fovs, manifest, moly_points, phase, delivered, lock, job,
                    returned, interrupted, files, listing, queue >>

\* self._check_last_fov(event.src_path), then the with block releases the lock
Last(t) ==
    /\ pc[t] = "check_last_fov"
    /\ Store(check_last_fov(Handler, job[t].path))
    /\ pc' = [ pc EXCEPT ![t] = "idle" ]
    /\ job' = [ job EXCEPT ![t] = NoJob ]
    /\ lock' = NoThread
    /\ UNCHANGED << wait_loop, inter_func, necessary_fovs, manifest, moly_points, phase, delivered,
                    returned, interrupted, files, listing, queue >>

LockNext ==
    \E t \in Threads :
        \/ \E path \in FovPaths(manifest) : Begin(t, path)
        \/ Missed(t)
        \/ \E size_now \in Sizes : Check(t, size_now)
        \/ Dispatch(t)
        \/ Last(t)

SpecLock == LockInit /\ [][LockNext]_vars

\* thread t is inside a handler
Busy(t) == pc[t] # "idle"

\* C13: at most one on_created/on_moved handler executes at any time, it runs
\* with the lock held, and every change of fov_progress, processed_fovs, the
\* marker and the callback trace is made by the thread that holds the lock.
C13_OneHandlerAtATime ==
    [][ /\ \A t \in Threads :
              Busy(t) => ( lock = t /\ \A u \in Threads \ { t } : ~Busy(u) )
        /\ Handler' # Handler =>
              ( /\ lock \in Threads
                /\ Busy(lock)
                /\ \A u \in Threads \ { lock } : pc'[u] = pc[u] /\ job'[u] = job[u] )
      ]_vars

\* C13 witness: each of the two threads has handled an event, and one of them is
\* inside a handler that has just invoked a callback.
C13_Witness ==
    /\ \E j, k \in 1 .. Len(delivered) : delivered[j].live /\ ~delivered[k].live
    /\ \E t \in Threads : pc[t] = "check_last_fov" /\ lock = t
    /\ calls # << >>

\* C14: from the start of a handler's wait on an empty file until that handler
\* goes on, the lock stays with the waiting thread, no other thread is or gets
\* inside a handler, and nothing changes the tracker, the marker or the trace.
C14_LockHeldWhileWaiting ==
    [][ \A t \in Threads :
           ( pc[t] = "check_run_condition" /\ ReadsSize(Handler, job[t].path) ) =>
              /\ lock = t
              /\ lock' = t
              /\ \A u \in Threads \ { t } : ~Busy(u) /\ pc'[u] = "idle"
              /\ pc'[t] = "check_run_condition" => Handler' = Handler
      ]_vars

\* C14 witness: a thread has slept for the whole timeout on an empty file, after
\* the other thread handled an event.
C14_Witness ==
    \E t \in Threads :
        /\ pc[t] = "check_run_condition"
        /\ job[t].wait = PollIntervals
        /\ \E k \in 1 .. Len(delivered) : delivered[k].live # ( t = "observer" )

\* ------------------------------------------------ RunStructure.__init__
\* FOV entries of a manifest read from disk
MaxRawFovs == 2

\* a key that is present holds an integer between -MaxKeyValue and MaxKeyValue
MaxKeyValue == 2

\* an entry of run_metadata["fovs"] as read from the file: either key may be
\* missing (a missing key is written with the value 0)
RawEntries ==
    { [ hasRunOrder |-> hr, runOrder |-> ro, hasScanCount |-> hs, scanCount |-> sc,
        standardTarget |-> "" ] :
        hr \in BOOLEAN, ro \in (0 - MaxKeyValue) .. MaxKeyValue,
        hs \in BOOLEAN, sc \in (0 - MaxKeyValue) .. MaxKeyValue }

PresentOrZero(fov) ==
    /\ ~fov.hasRunOrder => fov.runOrder = 0
    /\ ~fov.hasScanCount => fov.scanCount = 0

RawManifests ==
    UNION { [ 1 .. len -> { fov \in RawEntries : PresentOrZero(fov) } ] : len \in 1 .. MaxRawFovs }

\* fov.get("runOrder", -1)
run_order_of(fov) == IF fov.hasRunOrder THEN fov.runOrder ELSE 0 - 1

\* fov.get("scanCount", -1)
scan_of(fov) == IF fov.hasScanCount THEN fov.scanCount ELSE 0 - 1

\* if run_order * scan < 0: raise KeyError
raises_key_error(fov) == run_order_of(fov) * scan_of(fov) < 0

\* the entry with the values __init__ goes on with
parsed(fov) == Entry(run_order_of(fov), scan_of(fov), fov.standardTarget)

\* the manifest with the values __init__ goes on with
parsed_manifest(m) == [ k \in 1 .. Len(m) |-> parsed(m[k]) ]

ConstructInit ==
    /\ AuxInit
    /\ manifest \in RawManifests
    /\ moly_points = { }
    /\ fov_progress = [ n \in { } |-> [ e \in FileKinds |-> FALSE ] ]
    /\ processed_fovs = << >>
    /\ last_fov_num_processed = 0
    /\ calls = << >>
    /\ timeouts = { }
    /\ phase = "unbuilt"
    /\ delivered = << >>

\* RunStructure(run_folder): the loop over run_metadata["fovs"]
Construct ==
    /\ phase = "unbuilt"
    /\ IF \E k \in 1 .. Len(manifest) : raises_key_error(manifest[k])
          THEN /\ phase' = "KeyError"
               /\ UNCHANGED << moly_points, fov_progress >>
          ELSE /\ phase' = "built"
               /\ moly_points' = MolyPoints(parsed_manifest(manifest))
               /\ fov_progress' = InitialProgress(parsed_manifest(manifest))
    /\ UNCHANGED << manifest, processed_fovs, last_fov_num_processed, calls, timeouts,
                    delivered, aux >>

ConstructNext == Construct

SpecConstruct == ConstructInit /\ [][ConstructNext]_vars

\* C19: a manifest with an entry that lacks runOrder, scanCount or both never
\* yields a RunStructure, whatever integer the key that is present holds.
C19_MissingKeyRaises ==
    phase = "built" =>
        \A k \in 1 .. Len(manifest) : manifest[k].hasRunOrder /\ manifest[k].hasScanCount

\* ---------------------------------------------------------- start_watcher
\* a tissue FOV followed by a moly point
ManifestMolyLast == << Entry(1, 1, ""), Entry(2, 1, MolyTarget) >>

WatcherManifests == { Manifest2, ManifestMolyLast }

RECURSIVE NatSorted(_)
\* ns.natsorted(files)
NatSorted(S) ==
    IF S = { } THEN << >>
    ELSE LET first == CHOOSE p \in S : \A q \in S \ { p } : NatLess(p, q)
         IN  << first >> \o NatSorted(S \ { first })

\* the exit test of the polling loop with any() in place of all()
loop_done_any(fp) == \E k \in DOMAIN check_fov_progress(fp) : check_fov_progress(fp)[k]

\* all(event_handler.run_structure.check_fov_progress().values())
loop_done(fp) == AllTrue(check_fov_progress(fp))

\* observer.join() that does not wait for the observer's thread
join_nowait(p) == TRUE

\* observer.join() returns once the observer's thread has left the handler it was in
join(p) == p["observer"] = "idle"

\* start_watcher is called: the run folder holds the manifest
WatcherInit ==
    /\ manifest \in WatcherManifests
    /\ moly_points = MolyPoints(manifest)
    /\ fov_progress = InitialProgress(manifest)
    /\ processed_fovs = << >>
    /\ last_fov_num_processed = 0
    /\ calls = << >>
    /\ timeouts = { }
    /\ phase = "construct"
    /\ delivered = << >>
    /\ returned = NoReturn
    /\ lock = NoThread
    /\ pc = [ t \in Threads |-> "idle" ]
    /\ job = [ t \in Threads |-> NoJob ]
    /\ interrupted = FALSE
    /\ files = { ManifestPath }
    /\ listing = << >>
    /\ queue = << >>
    /\ timeout = zero_size_timeout
    /\ wait_time = FloatZero
    /\ slept = 0
    /\ inter_func = FALSE
    /\ necessary_fovs = NoPoll

\* the instrument writes a file into the run folder; a running observer queues
\* a creation event for it
CreateFile(f) ==
    /\ phase \in { "construct", "walk", "watch" }
    /\ f \notin files
    /\ files' = files \cup { f }
    /\ queue' = IF phase = "watch" THEN Append(queue, f) ELSE queue
    /\ UNCHANGED << wait_loop, inter_func, necessary_fovs, manifest, moly_points, fov_progress, processed_fovs,
                    last_fov_num_processed, calls, timeouts, phase, delivered,
                    returned, lock, pc, job, interrupted, listing >>

\* FOV_EventHandler.__init__ up to os.walk listing the run folder
List ==
    /\ phase = "construct"
    /\ listing' = NatSorted(files)
    /\ phase' = "walk"
    /\ UNCHANGED << wait_loop, inter_func, necessary_fovs, manifest, moly_points, fov_progress, processed_fovs,
                    last_fov_num_processed, calls, timeouts, delivered,
                    returned, lock, pc, job, interrupted, files, queue >>

\* __init__: self.on_created(FileCreatedEvent(...)) for the next listed file
Walk ==
    /\ phase = "walk"
    /\ listing # << >>
    /\ Enter("main", Head(listing))
    /\ listing' = Tail(listing)
    /\ queue' = queue

\* observer.schedule(event_handler, run_folder, recursive=True); observer.start()
StartObserver ==
    /\ phase = "walk"
    /\ listing = << >>
    /\ pc["main"] = "idle"
    /\ phase' = "watch"
    /\ UNCHANGED << manifest, moly_points, fov_progress, processed_fovs,
                    last_fov_num_processed, calls, timeouts, delivered, aux >>

\* the observer's thread takes the next event off its queue and calls on_created
Take ==
    /\ phase = "watch"
    /\ queue # << >>
    /\ Enter("observer", Head(queue))
    /\ queue' = Tail(queue)
    /\ listing' = listing

\* the polling loop finds every FOV complete: observer.stop()
LoopExit ==
    /\ phase = "watch"
    /\ loop_done(fov_progress)
    /\ phase' = "stopped"
    /\ UNCHANGED << manifest, moly_points, fov_progress, processed_fovs,
                    last_fov_num_processed, calls, timeouts, delivered, aux >>

\* except KeyboardInterrupt: observer.stop()
Interrupt ==
    /\ phase = "watch"
    /\ interrupted' = TRUE
    /\ phase' = "stopped"
    /\ UNCHANGED << wait_loop, inter_func, necessary_fovs, manifest, moly_points, fov_progress, processed_fovs,
                    last_fov_num_processed, calls, timeouts, delivered,
                    returned, lock, pc, job, files, listing, queue >>

\* observer.join(); start_watcher returns
Join ==
    /\ phase = "stopped"
    /\ join(pc)
    /\ phase' = "returned"
    /\ UNCHANGED << manifest, moly_points, fov_progress, processed_fovs,
                    last_fov_num_processed, calls, timeouts, delivered, aux >>

\* the steps of start_watcher's own thread
MainStep ==
    \/ List
    \/ Walk
    \/ Missed("main")
    \/ \E size_now \in Sizes : Check("main", size_now)
    \/ Dispatch("main")
    \/ Last("main")
    \/ StartObserver
    \/ LoopExit
    \/ Join

\* the steps of the observer's thread inside a handler
ObserverStep ==
    \/ Missed("observer")
    \/ \E size_now \in Sizes : Check("observer", size_now)
    \/ Dispatch("observer")
    \/ Last("observer")

WatcherNext ==
    \/ \E f \in FovPaths(manifest) : CreateFile(f)
    \/ MainStep
    \/ Take
    \/ ObserverStep
    \/ Interrupt

SpecWatcher == WatcherInit /\ [][WatcherNext]_vars

\* both threads keep running: sleeps return and the size wait ends by the timeout
SpecWatcherFair ==
    /\ WatcherInit
    /\ [][WatcherNext]_vars
    /\ WF_vars(MainStep)
    /\ WF_vars(ObserverStep)

\* every tracked FOV that is no moly point has both flags set
AllDone == \A n \in (DOMAIN fov_progress) \ moly_points : BothFlags(fov_progress, n)

C16_CallbacksDoneAtReturn ==
    phase = "returned" =>
        /\ \A t \in Threads : ~Busy(t)
        /\ ~interrupted =>
              \A n \in (DOMAIN fov_progress) \ moly_points :
                  \E k \in 1 .. Len(calls) : calls[k] = FovCall(IdArg(n))

\* C16 witness: the two FOVs of the test manifest got their four files while
\* the watch ran, and start_watcher returned because of completion.
C16_Witness ==
    /\ manifest = Manifest2
    /\ phase = "returned"
    /\ ~interrupted
    /\ timeouts = { }
    /\ \A f \in FovPaths(manifest) :
          \E k \in 1 .. Len(delivered) : delivered[k].live /\ delivered[k].path = f

\* C20: once the initial walk has listed the run folder, every FOV file of the
\* folder is listed for the walk, queued as a live event, being handled or handled.
C20_NoFileMissed ==
    phase # "construct" =>
        \A f \in files :
            \/ \E k \in 1 .. Len(listing) : listing[k] = f
            \/ \E k \in 1 .. Len(queue) : queue[k] = f
            \/ \E t \in Threads : Busy(t) /\ job[t].path = f
            \/ f \in DeliveredPaths

\* ----------------------------------------------- events of every kind
\* events handled by one handler, whatever their path
MaxOddEvents == 3

EventManifests == { Manifest2, ManifestMoly }

\* <run_folder>/fov-1-scan-1.bin.tmp: the file name has three parts
MalformedPath == [ kind |-> "malformed", ord |-> 0, scan |-> 0, ext |-> "tmp" ]

\* the bin and json file of a FOV that is not in the manifest
UnknownPaths(m) == { FovFile(Len(m) + 1, 1, e) : e \in FileKinds }

EventPaths(m) == FovPaths(m) \cup UnknownPaths(m) \cup { ManifestPath, MalformedPath }

EventsInit ==
    /\ AuxInit
    /\ manifest \in EventManifests
    /\ moly_points = MolyPoints(manifest)
    /\ fov_progress = InitialProgress(manifest)
    /\ processed_fovs = << >>
    /\ last_fov_num_processed = 0
    /\ calls = << >>
    /\ timeouts = { }
    /\ phase = "watch"
    /\ delivered = << >>

\* on_created(FileCreatedEvent(path)): exists is what os.path.exists(path) gives
\* inside check_run_condition; returned holds what check_run_condition gave
OnCreated(path, exists, size) ==
    LET h1 == process_missed_fovs(Handler, path)
        r == check_run_condition(h1, path, exists, size)
    IN  /\ Len(delivered) < MaxOddEvents
        /\ Len(calls) <= MaxCalls
        /\ size = "zero" =>
              /\ exists
              /\ path.kind = "fov"
              /\ ReadsSize(h1, path)
              /\ Cardinality(Empties) < MaxEmpty
        /\ Store(on_created(Handler, path, exists, size))
        /\ delivered' = Append(delivered, Event(path, size, TRUE))
        /\ returned' = [ op |-> "on_created", path |-> path, exists |-> exists,
                         size |-> size, ready |-> r.ready, name |-> r.name,
                         raised |-> r.timeout ]
        /\ UNCHANGED << wait_loop, inter_func, necessary_fovs, manifest, moly_points, phase, lock, pc, job, interrupted,
                        files, listing, queue >>

EventsNext ==
    \E path \in EventPaths(manifest), exists \in BOOLEAN, size \in Sizes :
        OnCreated(path, exists, size)

SpecEvents == EventsInit /\ [][EventsNext]_vars

\* the event handled by the step is one the orchestrator is to ignore: a malformed
\* file name, a path that exists no longer, or a bin file of a FOV with no entry
IgnorableEvent ==
    /\ returned'.op = "on_created"
    /\ Len(delivered') = Len(delivered) + 1
    /\ \/ returned'.path.kind = "malformed"
       \/ ~returned'.exists
       \/ /\ returned'.path.kind = "fov"
          /\ returned'.path.ext = "bin"
          /\ Stem(returned'.path) \notin DOMAIN fov_progress

\* C21: handling an event for a malformed file name, for a path that exists no
\* longer or for a bin file of a FOV without an entry invokes no callback and
\* leaves fov_progress, processed_fovs and the marker as they were.
C21_IgnoredEventChangesNothing ==
    [][ IgnorableEvent =>
            /\ calls' = calls
            /\ fov_progress' = fov_progress
            /\ processed_fovs' = processed_fovs
            /\ last_fov_num_processed' = last_fov_num_processed ]_vars

\* C22: once a file of a FOV has timed out, no per-FOV invocation is made for
\* that FOV, neither in the handler in which it timed out nor in a later one.
C22_TimedOutNeverDispatched ==
    [][ \A n \in timeouts' : NumFovCalls(n)' = NumFovCalls(n) ]_vars

\* C23: when check_run_condition has timed out for a FOV and every FOV that is
\* still tracked and is no moly point has both flags, the handler of the timed-out
\* event invokes the per-run callback right after the timeout.
C23_TimeoutStillChecksCompletion ==
    [][ \A t \in Threads :
           ( /\ pc[t] = "dispatch"
             /\ pc'[t] = "check_last_fov"
             /\ job[t].raised
             /\ \A n \in (DOMAIN fov_progress) \ moly_points : BothFlags(fov_progress, n) )
           => NumRunCalls' = NumRunCalls + 1 ]_vars

\* C23 witness: one FOV timed out while another one was tracked with both flags,
\* and the per-run callback was the last thing the timeout branch invoked.
C23_Witness ==
    \E t \in Threads :
        /\ pc[t] = "check_last_fov"
        /\ job[t].raised
        /\ calls # << >>
        /\ IsRunCall(calls[Len(calls)])
        /\ Stem(job[t].path) \notin DOMAIN calls[Len(calls)].arg
        /\ \E n \in (DOMAIN fov_progress) \ moly_points : BothFlags(fov_progress, n)

\* the event whose handling is the step just taken
Handled == delivered'[Len(delivered')]

EventHandled == Len(delivered') = Len(delivered) + 1

\* per-FOV invocations made so far by the loop of the last-FOV check
NumLastFovCalls ==
    Cardinality({ k \in 1 .. Len(FovCalls) : FovCalls[k].arg.form = "underscore_path" })

\* C24: the handling of an event whose path is not a file of the run's final FOV
\* (ordinal equal to the number of FOVs of the manifest) makes no per-FOV
\* invocation from the last-FOV check.
C24_LastFovCheckOnlyForFinalFov ==
    [][ ( /\ EventHandled
          /\ ~ ( Handled.path.kind = "fov" /\ Handled.path.ord = Len(manifest) ) )
        => NumLastFovCalls' = NumLastFovCalls ]_vars

\* C25: once the scan-1 bin event of ordinal k is handled, every FOV of a lower
\* ordinal that is no moly point and of which no scan has timed out has had a
\* per-FOV invocation.
C25_BackfillCoversSkipped ==
    [][ ( /\ EventHandled
          /\ Handled.path.kind = "fov"
          /\ Handled.path.ext = "bin"
          /\ Handled.path.scan = 1 )
        => \A n \in AllFovNames(manifest) \ moly_points :
              ( /\ n[1] < Handled.path.ord
                /\ n[2] = 1
                /\ \A t \in timeouts' : t[1] # n[1] )
              => NumFovCalls(n)' >= 1 ]_vars

\* C26: every FOV that had a per-FOV invocation is in processed_fovs under the
\* identifier that keys fov_progress.
C26_DispatchedIsRecorded ==
    \A k \in 1 .. Len(FovCalls) :
        Recorded(<< FovCalls[k].arg.ord, FovCalls[k].arg.scan >>)

HighestCalled ==
    IF FovCalls = << >> THEN 0
    ELSE CHOOSE m \in { FovCallOrds[k] : k \in 1 .. Len(FovCalls) } :
            \A k \in 1 .. Len(FovCalls) : FovCallOrds[k] <= m

\* C28: between event handlings the marker is the highest ordinal a per-FOV
\* invocation was made for, whichever of the readiness path, the backfill and the
\* last-FOV check made it, and 0 when none was made; stated for the runs in which
\* no FOV has timed out.
C28_MarkerIsHighestCalled ==
    timeouts = {} => last_fov_num_processed = HighestCalled

\* C29: no event handling, in whatever order the events arrive, lowers the marker.
C29_MarkerNeverDecreases ==
    [][ last_fov_num_processed' >= last_fov_num_processed ]_vars

\* C30: check_run_condition returns ready only for the FOV of its path, and only if
\* that FOV is a key of fov_progress with both flags set, is no moly point and is
\* not in processed_fovs; and a call that sets the last missing flag of a FOV
\* returns ready with that FOV's id.
C30_ReadyIffComplete ==
    [][ returned'.op = "check_run_condition" =>
          LET n == Stem(returned'.path)
          IN  /\ returned'.ready =>
                    /\ returned'.name = n
                    /\ n \in DOMAIN fov_progress'
                    /\ BothFlags(fov_progress', n)
                    /\ n \notin moly_points
                    /\ ~Recorded(n)
              /\ ( /\ n \in DOMAIN fov_progress
                   /\ ~BothFlags(fov_progress, n)
                   /\ n \in DOMAIN fov_progress'
                   /\ BothFlags(fov_progress', n) )
                 => ( returned'.ready /\ returned'.name = n /\ ~returned'.raised ) ]_vars

\* C30 witness: in a run with a moly point and with another FOV in processed_fovs,
\* a call of check_run_condition returned ready for a FOV with both flags set.
C30_Witness ==
    /\ returned.op = "check_run_condition"
    /\ returned.ready
    /\ returned.name = Stem(returned.path)
    /\ BothFlags(fov_progress, returned.name)
    /\ ~Recorded(returned.name)
    /\ moly_points # { }
    /\ processed_fovs # << >>

\* --------------------------------------------- the tracker on paths of any kind
HiddenPath == [ kind |-> "hidden", ord |-> 0, scan |-> 0, ext |-> "tmp" ]

FrameManifests == { Manifest2, ManifestMoly }

FramePaths(m) == EventPaths(m) \cup { HiddenPath }

TrackerPathsNext ==
    \/ \E path \in FramePaths(manifest), exists \in BOOLEAN, size \in Sizes :
          CheckRunCondition(path, exists, size)
    \/ \E name \in AllFovNames(manifest) : Processed(name)

TrackerPathsInit ==
    /\ TrackerInit
    /\ manifest \in FrameManifests

SpecTrackerPaths == TrackerPathsInit /\ [][TrackerPathsNext]_vars

\* the call of check_run_condition made by the step is one that returns (False, ""):
\* a hidden file, a malformed file name, or a path that exists no longer
ReturnsEmptyId ==
    \/ returned'.path.kind \in { "hidden", "malformed" }
    \/ ~returned'.exists

\* the call is made for a FOV in processed_fovs, for a moly point, or for a bin
\* file of a FOV without an entry
LeftAlone ==
    \/ Recorded(Stem(returned'.path))
    \/ Stem(returned'.path) \in moly_points
    \/ /\ returned'.path.kind = "fov"
       /\ returned'.path.ext = "bin"
       /\ Stem(returned'.path) \notin DOMAIN fov_progress

\* C31: check_run_condition on a hidden file, on a malformed file name or on a path
\* that exists no longer returns (False, "") and raises nothing; in these cases and
\* for a processed FOV, a moly point and a bin file of an unknown FOV it leaves
\* fov_progress and processed_fovs as they were.
C31_IgnoredPathsLeaveTracker ==
    [][ returned'.op = "check_run_condition" =>
          /\ ReturnsEmptyId =>
                ( ~returned'.ready /\ returned'.name = NoName /\ ~returned'.raised )
          /\ ( ReturnsEmptyId \/ LeftAlone ) =>
                ( fov_progress' = fov_progress /\ processed_fovs' = processed_fovs )
       ]_vars

\* C31 witness: an existing, non-empty json file of a moly point whose flags are
\* unset was given to check_run_condition, in a run where another FOV has a flag set.
C31_Witness ==
    /\ returned.op = "check_run_condition"
    /\ returned.exists
    /\ returned.path.kind = "fov"
    /\ returned.size = "nonzero"
    /\ Stem(returned.path) \in moly_points
    /\ ~Recorded(Stem(returned.path))
    /\ \E n \in DOMAIN fov_progress : fov_progress[n]["json"] \/ fov_progress[n]["bin"]

\* ------------------------------------- the wait of check_run_condition, poll by poll
MaxTimeout == 10

\* the values of timeout the handler is constructed with, in seconds
Timeouts == 1 .. MaxTimeout

WaitManifests == { Manifest2 }

WaitInit ==
    /\ manifest \in WaitManifests
    /\ moly_points = MolyPoints(manifest)
    /\ fov_progress = InitialProgress(manifest)
    /\ processed_fovs = << >>
    /\ last_fov_num_processed = 0
    /\ calls = << >>
    /\ timeouts = { }
    /\ phase = "tracker"
    /\ delivered = << >>
    /\ returned = NoReturn
    /\ lock = NoThread
    /\ pc = [ t \in Threads |-> "idle" ]
    /\ job = [ t \in Threads |-> NoJob ]
    /\ interrupted = FALSE
    /\ files = { }
    /\ listing = << >>
    /\ queue = << >>
    /\ timeout \in Timeouts
    /\ wait_time = FloatZero
    /\ slept = 0
    /\ inter_func = FALSE
    /\ necessary_fovs = NoPoll

\* check_run_condition(path) is called for an existing file of a tracked FOV and
\* reaches `wait_time = 0`
EnterWait(path) ==
    /\ pc["main"] = "idle"
    /\ ReadsSize(Handler, path)
    /\ pc' = [ pc EXCEPT !["main"] = "check_run_condition" ]
    /\ job' = [ job EXCEPT !["main"] = [ NoJob EXCEPT !.path = path ] ]
    /\ wait_time' = FloatZero
    /\ slept' = 0
    /\ UNCHANGED << manifest, moly_points, fov_progress, processed_fovs,
                    last_fov_num_processed, calls, timeouts, phase, delivered, returned,
                    lock, interrupted, files, listing, queue, timeout,
                    inter_func, necessary_fovs >>

\* one test of `while os.path.getsize(path) == 0` with what follows it: the sleep
\* and the addition, or the del and the raise, or the flag and the return
Poll(size_now) ==
    /\ pc["main"] = "check_run_condition"
    /\ IF size_now = "zero" /\ ~float_ge(wait_time, float_of_int(timeout))
          THEN /\ slept' = slept + 1
               /\ wait_time' = float_add(wait_time, float_div(timeout, 10))
               /\ UNCHANGED << fov_progress, timeouts, returned, pc, job >>
          ELSE LET r == check_run_condition(Handler, job["main"].path, TRUE, size_now)
               IN  /\ fov_progress' = r.h.fov_progress
                   /\ timeouts' = r.h.timeouts
                   /\ returned' = [ op |-> "check_run_condition", path |-> job["main"].path,
                                    exists |-> TRUE, size |-> size_now, ready |-> r.ready,
                                    name |-> r.name, raised |-> r.timeout ]
                   /\ pc' = [ pc EXCEPT !["main"] = "idle" ]
                   /\ job' = [ job EXCEPT !["main"] = NoJob ]
                   /\ UNCHANGED << wait_time, slept >>
    /\ UNCHANGED << manifest, moly_points, processed_fovs, last_fov_num_processed, calls,
                    phase, delivered, lock, interrupted, files, listing, queue, timeout,
                    inter_func, necessary_fovs >>

WaitNext ==
    \/ \E path \in FovPaths(manifest) : EnterWait(path)
    \/ \E size_now \in Sizes : Poll(size_now)

SpecWait == WaitInit /\ [][WaitNext]_vars

\* C32: a call of check_run_condition sleeps at most PollIntervals times, each
\* time for timeout / 10, so that it never waits longer than timeout.
C32_WaitBoundedByTimeout ==
    slept <= PollIntervals

\* the flags the step has set and the entries it has deleted
FlagsSet ==
    { << n, e >> \in ( DOMAIN fov_progress \cap DOMAIN fov_progress' ) \X FileKinds :
         ~fov_progress[n][e] /\ fov_progress'[n][e] }

EntriesDeleted == DOMAIN fov_progress \ DOMAIN fov_progress'

\* C33: no step adds an entry to fov_progress or turns a true flag false; an entry
\* goes only when its FOV times out in that step, and the handling of one event
\* changes fov_progress by at most one flag set or one entry deleted.
C33_FlagsMonotone ==
    [][ /\ DOMAIN fov_progress' \subseteq DOMAIN fov_progress
        /\ \A n \in DOMAIN fov_progress' : \A e \in FileKinds :
              fov_progress[n][e] => fov_progress'[n][e]
        /\ EntriesDeleted \subseteq timeouts' \ timeouts
        /\ Cardinality(FlagsSet) + Cardinality(EntriesDeleted) <= 1 ]_vars

\* C33 witness: one FOV has a flag set and keeps it after a later event made
\* another file of the run time out, the entry of its FOV being deleted.
C33_Witness ==
    /\ returned.op = "on_created"
    /\ returned.raised
    /\ Stem(returned.path) \notin DOMAIN fov_progress
    /\ \E n \in DOMAIN fov_progress : fov_progress[n]["json"] \/ fov_progress[n]["bin"]

\* the FOVs of the manifest entries whose standardTarget is "Molybdenum Foil"
MolyFovs ==
    UNION { FovNames(manifest[k]) :
              k \in { j \in 1 .. Len(manifest) : manifest[j].standardTarget = MolyTarget } }

\* C34: every entry of fov_progress has exactly the flags json and bin, and no
\* flag of a moly FOV is ever true.
C34_TwoFlagsMolyUnset ==
    /\ \A n \in DOMAIN fov_progress : DOMAIN fov_progress[n] = FileKinds
    /\ \A n \in MolyFovs \cap DOMAIN fov_progress :
          ~fov_progress[n]["json"] /\ ~fov_progress[n]["bin"]

\* C34 witness: the event handled last was for an existing, non-empty file of a
\* moly FOV, after a flag of another FOV had been set.
C34_Witness ==
    /\ returned.op = "on_created"
    /\ returned.exists
    /\ returned.path.kind = "fov"
    /\ returned.size = "nonzero"
    /\ Stem(returned.path) \in MolyFovs
    /\ \E n \in DOMAIN fov_progress : fov_progress[n]["json"] \/ fov_progress[n]["bin"]

\* ------------------------------- the handler, one callback or statement at a time
MaxCallbackEvents == 3

CallbackManifests == { Manifest2 }

\* the intermediate callback was invoked
InterCall == [ f |-> "inter", arg |-> << >> ]

\* the per-FOV callback was invoked with point_name and raised
RaisedCall(point_name) == [ f |-> "fov_raised", arg |-> point_name ]

IsInterCall(c) == c.f = "inter"

IsRaisedCall(c) == c.f = "fov_raised"

NumInterCalls == Len(SelectSeq(calls, IsInterCall))

\* the locals of the handler: the event's path, the loop variable and its end, the
\* argument of _generate_callback_data and the place it returns to
NoFrame ==
    [ path |-> ManifestPath, i |-> 0, stop |-> 0, arg |-> << >>, ret |-> "idle",
      name |-> NoName ]

\* leaving the with block through an exception, with the lock never released
release_on_raise_held(l) == l

\* leaving `with self.lock:` through an exception releases the lock
release_on_raise(l) == NoThread

CallbackInit ==
    /\ manifest \in CallbackManifests
    /\ moly_points = MolyPoints(manifest)
    /\ fov_progress = InitialProgress(manifest)
    /\ processed_fovs = << >>
    /\ last_fov_num_processed = 0
    /\ calls = << >>
    /\ timeouts = { }
    /\ phase = "watch"
    /\ delivered = << >>
    /\ returned = NoReturn
    /\ lock = NoThread
    /\ pc = [ t \in Threads |-> "idle" ]
    /\ job = [ t \in Threads |-> NoFrame ]
    /\ interrupted = FALSE
    /\ files = { }
    /\ listing = << >>
    /\ queue = << >>
    /\ timeout = zero_size_timeout
    /\ wait_time = FloatZero
    /\ slept = 0
    /\ inter_func \in BOOLEAN
    /\ necessary_fovs = NoPoll

\* what no step of the handler writes
CallbackFrame ==
    UNCHANGED << manifest, moly_points, phase, returned, interrupted, files, listing,
                 queue, wait_loop, inter_func, necessary_fovs >>

\* the handler's thread moves to position p with the locals f
Goto(p, f) ==
    /\ pc' = [ pc EXCEPT !["main"] = p ]
    /\ job' = [ job EXCEPT !["main"] = f ]

\* on_created(event): `with self.lock:` is entered
StartEvent(path, size) ==
    /\ pc["main"] = "idle"
    /\ acquire(lock)
    /\ Len(delivered) < MaxCallbackEvents
    /\ size = "zero" => ( ReadsSize(Handler, path) /\ Cardinality(Empties) < MaxEmpty )
    /\ lock' = "main"
    /\ delivered' = Append(delivered, Event(path, size, TRUE))
    /\ Goto("process_missed_fovs", [ NoFrame EXCEPT !.path = path ])
    /\ UNCHANGED << fov_progress, processed_fovs, last_fov_num_processed, calls, timeouts >>
    /\ CallbackFrame

\* _process_missed_fovs up to its loop
MissedHead ==
    LET f == job["main"]
    IN  /\ pc["main"] = "process_missed_fovs"
        /\ IF \/ f.path.kind \in { "hidden", "malformed" } \/ f.path.ext # "bin"
              \/ f.path.scan > 1
              \/ f.path.ord - 1 = last_fov_num_processed
              THEN Goto("check_run_condition", f)
              ELSE Goto("missed_loop", [ f EXCEPT !.i = last_fov_num_processed + 1,
                                                  !.stop = f.path.ord ])
        /\ UNCHANGED << fov_progress, processed_fovs, last_fov_num_processed, calls,
                        timeouts, delivered, lock >>
        /\ CallbackFrame

\* one turn of the loop of _process_missed_fovs: the call of _generate_callback_data
MissedTurn ==
    LET f == job["main"]
    IN  /\ pc["main"] = "missed_loop"
        /\ IF f.i >= f.stop
              THEN Goto("check_run_condition", f)
              ELSE Goto("fov_func", [ f EXCEPT !.arg = DashPath(f.i), !.i = f.i + 1,
                                               !.ret = "missed_loop" ])
        /\ UNCHANGED << fov_progress, processed_fovs, last_fov_num_processed, calls,
                        timeouts, delivered, lock >>
        /\ CallbackFrame

\* self.fov_func(self.run_folder, point_name): it returns, or it raises and the
\* exception leaves _generate_callback_data, _run_callbacks and on_created
FovFunc(raises) ==
    LET f == job["main"]
    IN  /\ pc["main"] = "fov_func"
        /\ IF raises
              THEN /\ calls' = Append(calls, RaisedCall(f.arg))
                   /\ lock' = release_on_raise(lock)
                   /\ Goto("idle", NoFrame)
              ELSE /\ calls' = Append(calls, FovCall(f.arg))
                   /\ lock' = lock
                   /\ Goto("processed", f)
        /\ UNCHANGED << fov_progress, processed_fovs, last_fov_num_processed, timeouts,
                        delivered >>
        /\ CallbackFrame

\* self.run_structure.processed(point_name)
MarkProcessed ==
    /\ pc["main"] = "processed"
    /\ processed_fovs' = processed(Handler, job["main"].arg).processed_fovs
    /\ Goto("inter_func", job["main"])
    /\ UNCHANGED << fov_progress, last_fov_num_processed, calls, timeouts, delivered, lock >>
    /\ CallbackFrame

\* the intermediate callback invoked whether or not one is set
InterFunc_unconditional ==
    /\ pc["main"] = "inter_func"
    /\ calls' = Append(calls, InterCall)
    /\ Goto("check_complete", job["main"])
    /\ UNCHANGED << fov_progress, processed_fovs, last_fov_num_processed, timeouts,
                    delivered, lock >>
    /\ CallbackFrame

\* if self.inter_func: self.inter_return_vals = self.inter_func(self.run_folder)
InterFunc ==
    /\ pc["main"] = "inter_func"
    /\ calls' = IF inter_func THEN Append(calls, InterCall) ELSE calls
    /\ Goto("check_complete", job["main"])
    /\ UNCHANGED << fov_progress, processed_fovs, last_fov_num_processed, timeouts,
                    delivered, lock >>
    /\ CallbackFrame

\* the self.check_complete() that ends _generate_callback_data
SequenceComplete ==
    /\ pc["main"] = "check_complete"
    /\ Store(check_complete(Handler))
    /\ Goto(job["main"].ret, job["main"])
    /\ UNCHANGED << delivered, lock >>
    /\ CallbackFrame

\* check_run_condition(file_trigger) and the except branch of _run_callbacks
CheckStep ==
    LET f == job["main"]
        size == delivered[Len(delivered)].size
        r == check_run_condition(Handler, f.path, TRUE, size)
    IN  /\ pc["main"] = "check_run_condition"
        /\ IF r.timeout
              THEN /\ Store([ check_complete(r.h) EXCEPT
                                !.last_fov_num_processed = f.path.ord + 1 ])
                   /\ Goto("check_last_fov", f)
              ELSE /\ Store(r.h)
                   /\ IF r.ready
                         THEN Goto("fov_func", [ f EXCEPT !.arg = IdArg(r.name),
                                                          !.name = r.name,
                                                          !.ret = "marker" ])
                         ELSE Goto("check_last_fov", f)
        /\ UNCHANGED << delivered, lock >>
        /\ CallbackFrame

\* self.last_fov_num_processed = point_number + 1, in the ready branch
Marker ==
    /\ pc["main"] = "marker"
    /\ last_fov_num_processed' = job["main"].name[1] + 1
    /\ Goto("check_last_fov", job["main"])
    /\ UNCHANGED << fov_progress, processed_fovs, calls, timeouts, delivered, lock >>
    /\ CallbackFrame

\* _check_last_fov up to its loop
LastHead ==
    /\ pc["main"] = "check_last_fov"
    /\ Goto("last_loop", [ job["main"] EXCEPT !.i = last_fov_num_processed + 1,
                                              !.stop = Cardinality(DOMAIN fov_progress) + 1 ])
    /\ UNCHANGED << fov_progress, processed_fovs, last_fov_num_processed, calls,
                    timeouts, delivered, lock >>
    /\ CallbackFrame

\* one turn of the loop of _check_last_fov, or the check_complete() after it and
\* the end of the with block
LastTurn ==
    LET f == job["main"]
    IN  /\ pc["main"] = "last_loop"
        /\ IF f.i >= f.stop
              THEN /\ Store(check_complete(Handler))
                   /\ lock' = NoThread
                   /\ Goto("idle", NoFrame)
              ELSE /\ Goto("fov_func", [ f EXCEPT !.arg = UnderscorePath(f.i), !.i = f.i + 1,
                                                  !.ret = "last_loop" ])
                   /\ UNCHANGED << fov_progress, processed_fovs, last_fov_num_processed,
                                   calls, timeouts, lock >>
        /\ UNCHANGED delivered
        /\ CallbackFrame

CallbackNext ==
    \/ \E path \in FovPaths(manifest) \cup { ManifestPath }, size \in Sizes :
          StartEvent(path, size)
    \/ MissedHead
    \/ MissedTurn
    \/ \E raises \in BOOLEAN : FovFunc(raises)
    \/ MarkProcessed
    \/ InterFunc
    \/ SequenceComplete
    \/ CheckStep
    \/ Marker
    \/ LastHead
    \/ LastTurn

SpecCallbacks == CallbackInit /\ [][CallbackNext]_vars

\* the per-FOV callback has returned once more than processed() was called, and so
\* on down the sequence: no step of a sequence runs ahead of the one before it
InSequenceOrder ==
    /\ Len(processed_fovs) <= Len(FovCalls)
    /\ Len(FovCalls) <= Len(processed_fovs) + 1
    /\ \A k \in 1 .. Len(processed_fovs) : processed_fovs[k] = FovCalls[k].arg
    /\ IF inter_func
          THEN /\ NumInterCalls <= Len(processed_fovs)
               /\ Len(processed_fovs) <= NumInterCalls + 1
          ELSE NumInterCalls = 0

\* C35: in every per-FOV callback sequence the per-FOV callback returns before the
\* FOV is marked processed, the intermediate callback is invoked after that, once
\* and only if one is set, and the completion check (the only place of a per-run
\* invocation) runs after all of them.
C35_SequenceOrder ==
    [][ /\ InSequenceOrder'
        /\ NumRunCalls' > NumRunCalls =>
              /\ Len(FovCalls) = Len(processed_fovs)
              /\ inter_func => NumInterCalls = Len(FovCalls) ]_vars

\* C35 witness: with an intermediate callback set, a sequence has run to its end,
\* the completion check invoking the per-run callback after the intermediate one.
C35_Witness ==
    /\ inter_func
    /\ pc["main"] = "idle"
    /\ \E k \in 2 .. Len(calls) - 1 :
          /\ IsFovCall(calls[k - 1])
          /\ IsInterCall(calls[k])
          /\ IsRunCall(calls[k + 1])
    /\ Len(processed_fovs) = Len(FovCalls)

\* C36: when the per-FOV callback raises, that step adds nothing to processed_fovs,
\* leaves the marker, ends the handling of the event (nothing after the call runs,
\* the last-FOV check included) and releases the lock; the lock is free whenever
\* no event is being handled.
C36_RaiseReleasesLock ==
    [][ /\ ( Len(calls') = Len(calls) + 1 /\ IsRaisedCall(calls'[Len(calls')]) ) =>
              /\ processed_fovs' = processed_fovs
              /\ last_fov_num_processed' = last_fov_num_processed
              /\ fov_progress' = fov_progress
              /\ pc'["main"] = "idle"
              /\ lock' = NoThread
        /\ pc'["main"] = "idle" => lock' = NoThread ]_vars

\* C36 witness: the per-FOV callback raised for a FOV that was ready; the FOV is not
\* in processed_fovs and the marker is where it was; a later event took the lock
\* and was handled to its end, callbacks included.
C36_Witness ==
    /\ pc["main"] = "idle"
    /\ lock = NoThread
    /\ \E k \in 1 .. Len(calls) :
          /\ IsRaisedCall(calls[k])
          /\ calls[k].arg.form = "id"
          /\ \A j \in 1 .. Len(processed_fovs) : processed_fovs[j] # calls[k].arg
          /\ \E j \in k + 1 .. Len(calls) : IsFovCall(calls[j])


\* ---------------------------------------------------------------------------
\* Construction from a well-formed manifest
\* ---------------------------------------------------------------------------

\* a well-formed entry: both keys present, runOrder and scanCount not negative,
\* standardTarget absent ("") or the moly target
WellFormedEntries ==
    { [ hasRunOrder |-> TRUE, runOrder |-> ro, hasScanCount |-> TRUE, scanCount |-> sc,
        standardTarget |-> t ] :
        ro \in 0 .. MaxKeyValue, sc \in 0 .. MaxKeyValue, t \in { "", MolyTarget } }

WellFormedManifests == UNION { [ 1 .. len -> WellFormedEntries ] : len \in 1 .. MaxRawFovs }

WellFormedInit ==
    /\ AuxInit
    /\ manifest \in WellFormedManifests
    /\ moly_points = { }
    /\ fov_progress = [ n \in { } |-> [ e \in FileKinds |-> FALSE ] ]
    /\ processed_fovs = << >>
    /\ last_fov_num_processed = 0
    /\ calls = << >>
    /\ timeouts = { }
    /\ phase = "unbuilt"
    /\ delivered = << >>

SpecWellFormed == WellFormedInit /\ [][ConstructNext]_vars

\* the identifiers fov-<runOrder>-scan-<s>, s in 1..scanCount, of the entries in ks
Identifiers(ks) ==
    UNION { { << manifest[k].runOrder, s >> : s \in 1 .. manifest[k].scanCount } : k \in ks }

\* C37: right after construction from a well-formed manifest the keys of
\* fov_progress are exactly the identifiers fov-<runOrder>-scan-<s> of the
\* manifest entries, every flag is false, processed_fovs is empty and
\* moly_points holds exactly the identifiers of the moly entries.
C37_ConstructedFromManifest ==
    phase = "built" =>
        /\ DOMAIN fov_progress = Identifiers(1 .. Len(manifest))
        /\ \A n \in DOMAIN fov_progress : \A e \in FileKinds : ~fov_progress[n][e]
        /\ processed_fovs = << >>
        /\ moly_points =
              Identifiers({ k \in 1 .. Len(manifest) : manifest[k].standardTarget = MolyTarget })

\* a run with a two-scan moly FOV and a FOV that is not a moly point
C37_Witness ==
    /\ phase = "built"
    /\ \E k \in 1 .. Len(manifest) :
          manifest[k].scanCount = 2 /\ manifest[k].standardTarget = MolyTarget
    /\ moly_points # { }
    /\ moly_points # DOMAIN fov_progress


\* ---------------------------------------------------------------------------
\* The walk of FOV_EventHandler.__init__ over a run folder that already holds files
\* ---------------------------------------------------------------------------

\* run orders of one and of two digits
ManifestWide == << Entry(2, 1, ""), Entry(10, 1, "") >>

WalkManifests == { ManifestWide }

\* the run folder holds the manifest and any of the FOV files when the handler
\* is constructed
WalkInit ==
    /\ manifest \in WalkManifests
    /\ moly_points = MolyPoints(manifest)
    /\ fov_progress = InitialProgress(manifest)
    /\ processed_fovs = << >>
    /\ last_fov_num_processed = 0
    /\ calls = << >>
    /\ timeouts = { }
    /\ phase = "construct"
    /\ delivered = << >>
    /\ returned = NoReturn
    /\ lock = NoThread
    /\ pc = [ t \in Threads |-> "idle" ]
    /\ job = [ t \in Threads |-> NoJob ]
    /\ interrupted = FALSE
    /\ files \in { { ManifestPath } \cup S : S \in SUBSET FovPaths(manifest) }
    /\ listing = << >>
    /\ queue = << >>
    /\ timeout = zero_size_timeout
    /\ wait_time = FloatZero
    /\ slept = 0
    /\ inter_func = FALSE
    /\ necessary_fovs = NoPoll

\* __init__: os.walk lists the folder, then on_created runs for each file in turn
WalkNext ==
    \/ List
    \/ Walk
    \/ Missed("main")
    \/ \E size_now \in Sizes : Check("main", size_now)
    \/ Dispatch("main")
    \/ Last("main")

SpecWalk == WalkInit /\ [][WalkNext]_vars

\* the loop over the listed files has ended
WalkDone == phase = "walk" /\ listing = << >> /\ pc["main"] = "idle"

\* C38: the initial walk hands on_created each file of the run folder exactly
\* once, as a synthesized (not live) event, and the FOV files in ascending
\* numeric order of FOV ordinal, then scan: fov-2 before fov-10.
C38_WalkInNaturalOrder ==
    /\ \A k \in 1 .. Len(delivered) : delivered[k].path \in files /\ ~delivered[k].live
    /\ \A j, k \in 1 .. Len(delivered) :
          ( j < k /\ delivered[j].path.kind = "fov" /\ delivered[k].path.kind = "fov" ) =>
              \/ delivered[j].path.ord < delivered[k].path.ord
              \/ /\ delivered[j].path.ord = delivered[k].path.ord
                 /\ delivered[j].path.scan <= delivered[k].path.scan
    /\ WalkDone =>
          \A f \in files : Cardinality({ k \in 1 .. Len(delivered) : delivered[k].path = f }) = 1

\* the folder held files of fov-2 and of fov-10 and the walk has ended
C38_Witness ==
    /\ WalkDone
    /\ \E j, k \in 1 .. Len(delivered) :
          /\ j < k
          /\ delivered[j].path = FovFile(2, 1, "json")
          /\ delivered[k].path = FovFile(10, 1, "bin")


\* ---------------------------------------------------------------------------
\* start_watcher's polling loop, statement by statement, beside the observer
\* ---------------------------------------------------------------------------

PollManifests == { Manifest2 }

\* observer.start() has returned: the run folder held only the manifest
PollInit ==
    /\ manifest \in PollManifests
    /\ moly_points = MolyPoints(manifest)
    /\ fov_progress = InitialProgress(manifest)
    /\ processed_fovs = << >>
    /\ last_fov_num_processed = 0
    /\ calls = << >>
    /\ timeouts = { }
    /\ phase = "watch"
    /\ delivered = << >>
    /\ returned = NoReturn
    /\ lock = NoThread
    /\ pc = [ t \in Threads |-> "idle" ]
    /\ job = [ t \in Threads |-> NoJob ]
    /\ interrupted = FALSE
    /\ files = { ManifestPath }
    /\ listing = << >>
    /\ queue = << >>
    /\ timeout = zero_size_timeout
    /\ wait_time = FloatZero
    /\ slept = 0
    /\ inter_func = FALSE
    /\ necessary_fovs = NoPoll

\* necessary_fovs = list(set(all_fovs).difference(moly_fovs)); keys are the names
\* the comprehension has still to look up, result the mapping built so far
PollKeys ==
    /\ phase = "watch"
    /\ pc["main"] = "idle"
    /\ pc' = [ pc EXCEPT !["main"] = "check_fov_progress" ]
    /\ necessary_fovs' = [ keys |-> (DOMAIN fov_progress) \ moly_points,
                           result |-> [ k \in { } |-> FALSE ] ]
    /\ UNCHANGED << wait_loop, inter_func, manifest, moly_points, fov_progress, processed_fovs,
                    last_fov_num_processed, calls, timeouts, phase, delivered,
                    returned, lock, job, interrupted, files, listing, queue >>

\* one turn of {k: all(self.fov_progress[k].values()) for k in necessary_fovs}:
\* a name that is no longer a key raises KeyError, which start_watcher lets pass
PollLookup(k) ==
    /\ pc["main"] = "check_fov_progress"
    /\ k \in necessary_fovs.keys
    /\ IF k \in DOMAIN fov_progress
          THEN /\ necessary_fovs' =
                     [ keys |-> necessary_fovs.keys \ { k },
                       result |-> [ j \in (DOMAIN necessary_fovs.result) \cup { k } |->
                                       IF j = k THEN AllTrue(fov_progress[k])
                                       ELSE necessary_fovs.result[j] ] ]
               /\ UNCHANGED << pc, phase >>
          ELSE /\ necessary_fovs' = NoPoll
               /\ pc' = [ pc EXCEPT !["main"] = "idle" ]
               /\ phase' = "KeyError"
    /\ UNCHANGED << wait_loop, inter_func, manifest, moly_points, fov_progress, processed_fovs,
                    last_fov_num_processed, calls, timeouts, delivered,
                    returned, lock, job, interrupted, files, listing, queue >>

\* while not all(....values()): time.sleep(completion_check_time); else observer.stop()
PollReturn ==
    /\ pc["main"] = "check_fov_progress"
    /\ necessary_fovs.keys = { }
    /\ phase' = IF AllTrue(necessary_fovs.result) THEN "stopped" ELSE phase
    /\ necessary_fovs' = NoPoll
    /\ pc' = [ pc EXCEPT !["main"] = "idle" ]
    /\ UNCHANGED << wait_loop, inter_func, manifest, moly_points, fov_progress, processed_fovs,
                    last_fov_num_processed, calls, timeouts, delivered,
                    returned, lock, job, interrupted, files, listing, queue >>

PollNext ==
    \/ \E f \in FovPaths(manifest) : CreateFile(f)
    \/ Take
    \/ ObserverStep
    \/ PollKeys
    \/ \E k \in DOMAIN fov_progress \cup AllFovNames(manifest) : PollLookup(k)
    \/ PollReturn

SpecPoll == PollInit /\ [][PollNext]_vars

\* C39: the unlocked poll of start_watcher's loop never fails, whatever the
\* event handler does to fov_progress while check_fov_progress runs: no lookup
\* of check_fov_progress meets a key the handler has just deleted.
C39_PollNeverFails == phase # "KeyError"


\* ---------------------------------------------------------------------------
\* Move events
\* ---------------------------------------------------------------------------

FileCreatedEvent(src_path) ==
    [ type |-> "FileCreatedEvent", src_path |-> src_path, dest_path |-> src_path ]

FileMovedEvent(src_path, dest_path) ==
    [ type |-> "FileMovedEvent", src_path |-> src_path, dest_path |-> dest_path ]

\* _run_callbacks with event.src_path for every type of event
file_trigger_src(event) == event.src_path

\* _run_callbacks: event.src_path for a creation event, event.dest_path otherwise
file_trigger(event) ==
    IF event.type \in { "DirCreatedEvent", "FileCreatedEvent" } THEN event.src_path
    ELSE event.dest_path

\* with self.lock: self._run_callbacks(event); self._check_last_fov(event.dest_path);
\* exists and size are those of the triggering path
on_moved(h, event, exists, size) ==
    check_last_fov(run_callbacks(h, file_trigger(event), exists, size), event.dest_path)

\* on_moved(FileMovedEvent(src, dest)): a file of the run folder is renamed
OnMoved(src, dest, exists, size) ==
    LET h1 == process_missed_fovs(Handler, dest)
        r == check_run_condition(h1, dest, exists, size)
    IN  /\ src # dest
        /\ Len(delivered) < MaxOddEvents
        /\ Len(calls) <= MaxCalls
        /\ size = "zero" =>
              /\ exists
              /\ dest.kind = "fov"
              /\ ReadsSize(h1, dest)
              /\ Cardinality(Empties) < MaxEmpty
        /\ Store(on_moved(Handler, FileMovedEvent(src, dest), exists, size))
        /\ delivered' = Append(delivered, Event(dest, size, TRUE))
        /\ returned' = [ op |-> "on_moved", path |-> dest, exists |-> exists,
                         size |-> size, ready |-> r.ready, name |-> r.name,
                         raised |-> r.timeout ]
        /\ UNCHANGED << wait_loop, inter_func, necessary_fovs, manifest, moly_points, phase,
                        lock, pc, job, interrupted, files, listing, queue >>

\* the names files are renamed from: a temporary name and the name of a FOV file
MoveSources == { MalformedPath, FovFile(1, 1, "bin") }

MovesNext ==
    \/ \E path \in EventPaths(manifest), exists \in BOOLEAN, size \in Sizes :
          OnCreated(path, exists, size)
    \/ \E src \in MoveSources, dest \in EventPaths(manifest), exists \in BOOLEAN, size \in Sizes :
          OnMoved(src, dest, exists, size)

SpecMoves == EventsInit /\ [][MovesNext]_vars

\* C40: handling a move event whose destination is P changes fov_progress,
\* processed_fovs, the marker and the callback trace exactly as handling a
\* creation event for P would from the same state.
C40_MovedAsCreated ==
    [][ ( returned'.op = "on_moved" /\ EventHandled ) =>
            Handler' = on_created(Handler, returned'.path, returned'.exists, returned'.size)
      ]_vars

\* a json file renamed into place completed FOV 1 and its callback was invoked
C40_Witness ==
    /\ returned.op = "on_moved"
    /\ returned.path = FovFile(1, 1, "json")
    /\ returned.ready
    /\ \E k \in 1 .. Len(calls) : calls[k] = FovCall(IdArg(<< 1, 1 >>))
    /\ \E k \in 1 .. Len(delivered) : delivered[k].path = FovFile(1, 1, "bin")

====
